---- MODULE Spec2Model ----
(***************************************************************************)
(* Model of auto-env-generator (src/src/lib.rs): the EnvScanner that scans *)
(* Rust source text for environment-variable accessor calls and the        *)
(* merge/writer that produces the .env file.                               *)
(*                                                                         *)
(* Text is modelled at character level: a string is a sequence of          *)
(* one-character strings, so that the literal matcher, the extraction      *)
(* regex, lines(), trim() and find() are computed as the code computes     *)
(* them.                                                                   *)
(***************************************************************************)
EXTENDS Integers, Sequences, FiniteSets, TLC

VARIABLES
    content,        \* text of the scanned source file (fs::read_to_string)
    ignore,         \* Config.ignore : Option<Vec<String>>
    mergeExisting,  \* Config.merge_existing.unwrap_or(true)
    variables,      \* HashSet<String> returned by the last scan
    outFile,        \* the output path: [exists |-> BOOLEAN, text |-> chars]
    prevOut,        \* outFile as the last generate_env_file call found it
    runs,           \* number of completed generate_env_file calls
    pc,             \* "start" | "scanning" | "scanned" | "written" | "failed" | "done"
    fault,          \* what the output path refuses: "none" | "read" | "create" | "write"
    error,          \* the Err an operation returned: [some, op, path]
    tree,           \* the directory tree at the scan root: tree[1] is the root
    rust_files,     \* Vec<PathBuf> returned by find_rust_files
    workers,        \* per file of rust_files: the closure run on it, [pc, variables]
    lock,           \* holder of the all_variables mutex, 0 if free
    all_variables   \* Mutex<HashSet<String>> of scan_directory

vars == <<content, ignore, mergeExisting, variables, outFile, prevOut, runs, pc,
          fault, error, tree, rust_files, workers, lock, all_variables>>

\* what scan_directory works on
dirVars == <<tree, rust_files, workers, lock, all_variables>>

-----------------------------------------------------------------------------
(* Characters *)

NL == "\n"
CR == "\r"
DQ == "\""
SP == " "
TAB == "\t"

\* char::is_whitespace restricted to the characters of the model
IsSpace(c) == c \in {SP, TAB, NL, CR}

\* byte value of a character (String's Ord compares bytes)
Code(c) ==
    CASE c = TAB -> 9
      [] c = NL  -> 10
      [] c = CR  -> 13
      [] c = SP  -> 32
      [] c = DQ  -> 34
      [] c = "#" -> 35
      [] c = "'" -> 39
      [] c = "(" -> 40
      [] c = ")" -> 41
      [] c = "+" -> 43
      [] c = "-" -> 45
      [] c = "/" -> 47
      [] c = "1" -> 49
      [] c = "2" -> 50
      [] c = ":" -> 58
      [] c = "=" -> 61
      [] c = "A" -> 65
      [] c = "B" -> 66
      [] c = "C" -> 67
      [] c = "\\" -> 92
      [] c = "_" -> 95
      [] c = "a" -> 97
      [] c = "d" -> 100
      [] c = "e" -> 101
      [] c = "n" -> 110
      [] c = "o" -> 111
      [] c = "r" -> 114
      [] c = "s" -> 115
      [] c = "t" -> 116
      [] c = "v" -> 118
      [] c = "x" -> 120

-----------------------------------------------------------------------------
(* str helpers *)

\* s[i..] starts with p (i is 1-based)
HasAt(s, i, p) ==
    /\ i + Len(p) - 1 <= Len(s)
    /\ \A k \in 1..Len(p) : s[i + k - 1] = p[k]

\* str::starts_with
StartsWith(s, p) == HasAt(s, 1, p)

\* str::find: 1-based index of the first occurrence of p, 0 for None
Find(s, p) ==
    LET hits == {i \in 1..Len(s) : HasAt(s, i, p)}
    IN  IF hits = {} THEN 0 ELSE CHOOSE i \in hits : \A j \in hits : i <= j

\* str::contains
Contains(s, p) == \E i \in 1..Len(s) : HasAt(s, i, p)

\* str::trim
Trim(s) ==
    LET keep == {i \in 1..Len(s) : ~IsSpace(s[i])}
    IN  IF keep = {} THEN <<>>
        ELSE SubSeq(s, CHOOSE i \in keep : \A j \in keep : i <= j,
                       CHOOSE i \in keep : \A j \in keep : i >= j)

\* a line of str::lines loses the "\r" of a "\r\n" ending
StripCR(s) ==
    IF Len(s) > 0 /\ s[Len(s)] = CR THEN SubSeq(s, 1, Len(s) - 1) ELSE s

\* str::lines
RECURSIVE Lines(_)
Lines(s) ==
    IF s = <<>> THEN <<>>
    ELSE LET nl == Find(s, <<NL>>)
         IN  IF nl = 0 THEN <<s>>
             ELSE <<StripCR(SubSeq(s, 1, nl - 1))>> \o Lines(SubSeq(s, nl + 1, Len(s)))

\* [T]::join with a separator
RECURSIVE Join(_, _)
Join(ls, sep) ==
    IF ls = <<>> THEN <<>>
    ELSE IF Len(ls) = 1 THEN ls[1]
    ELSE ls[1] \o sep \o Join(Tail(ls), sep)

\* concatenation of a sequence of strings
Concat(ls) == Join(ls, <<>>)

-----------------------------------------------------------------------------
(* Pattern matcher and extractor (EnvScanner::with_config) *)

EnvVar    == <<"e","n","v",":",":","v","a","r">>
StdEnvVar == <<"s","t","d",":",":">> \o EnvVar
DotenvVar == <<"d","o","t">> \o EnvVar
OsSuffix  == <<"_","o","s">>

\* the six literals given to AhoCorasick::new
patterns ==
    { StdEnvVar \o <<"(">>, EnvVar \o <<"(">>, DotenvVar \o <<"(">>,
      StdEnvVar \o OsSuffix \o <<"(">>, EnvVar \o OsSuffix \o <<"(">>,
      DotenvVar \o OsSuffix \o <<"(">> }

\* is_match with the _os literals left out of the automaton
is_match_PlainOnly(text) ==
    \E p \in {StdEnvVar \o <<"(">>, EnvVar \o <<"(">>, DotenvVar \o <<"(">>} :
        Contains(text, p)

\* AhoCorasick::is_match
is_match(text) == \E p \in patterns : Contains(text, p)

\* \s* : index of the first non-whitespace character at or after i
SkipWs(t, i) ==
    LET stop == {j \in i..Len(t) : ~IsSpace(t[j])}
    IN  IF stop = {} THEN Len(t) + 1 ELSE CHOOSE j \in stop : \A k \in stop : j <= k

NoMatch == [ok |-> FALSE, end |-> 0, cap |-> <<>>]

\* the argument pattern with either kind of quote accepted
ArgAt_AnyQuote(t, j) ==
    LET k == SkipWs(t, j)
    IN  IF ~(k <= Len(t) /\ t[k] = "(") THEN NoMatch
        ELSE LET m == SkipWs(t, k + 1)
             IN  IF ~(m <= Len(t) /\ t[m] \in {DQ, "'"}) THEN NoMatch
                 ELSE LET stop == {q \in (m + 1)..Len(t) : t[q] \in {DQ, "'", NL, CR}}
                          q == IF stop = {} THEN 0
                               ELSE CHOOSE a \in stop : \A b \in stop : a <= b
                      IN  IF q = 0 \/ t[q] \notin {DQ, "'"} THEN NoMatch
                          ELSE LET r == SkipWs(t, q + 1)
                               IN  IF r <= Len(t) /\ t[r] = ")"
                                   THEN [ok |-> TRUE, end |-> r + 1,
                                         cap |-> SubSeq(t, m + 1, q - 1)]
                                   ELSE NoMatch

\* the argument pattern with a backslash accepted before the opening quote
ArgAt_Unescape(t, j) ==
    LET k == SkipWs(t, j)
    IN  IF ~(k <= Len(t) /\ t[k] = "(") THEN NoMatch
        ELSE LET w == SkipWs(t, k + 1)
                 m == IF w <= Len(t) /\ t[w] = "\\" THEN w + 1 ELSE w
             IN  IF ~(m <= Len(t) /\ t[m] = DQ) THEN NoMatch
                 ELSE LET stop == {q \in (m + 1)..Len(t) : t[q] \in {DQ, NL, CR}}
                          q == IF stop = {} THEN 0
                               ELSE CHOOSE a \in stop : \A b \in stop : a <= b
                      IN  IF q = 0 \/ t[q] # DQ THEN NoMatch
                          ELSE LET r == SkipWs(t, q + 1)
                               IN  IF r <= Len(t) /\ t[r] = ")"
                                   THEN [ok |-> TRUE, end |-> r + 1,
                                         cap |-> SubSeq(t, m + 1, q - 1)]
                                   ELSE NoMatch

\* \s*\(\s*"([^"\n\r]*)"\s*\)  matched at index j
ArgAt(t, j) ==
    LET k == SkipWs(t, j)
    IN  IF ~(k <= Len(t) /\ t[k] = "(") THEN NoMatch
        ELSE LET m == SkipWs(t, k + 1)
             IN  IF ~(m <= Len(t) /\ t[m] = DQ) THEN NoMatch
                 ELSE LET stop == {q \in (m + 1)..Len(t) : t[q] \in {DQ, NL, CR}}
                          q == IF stop = {} THEN 0
                               ELSE CHOOSE a \in stop : \A b \in stop : a <= b
                      IN  IF q = 0 \/ t[q] # DQ THEN NoMatch
                          ELSE LET r == SkipWs(t, q + 1)
                               IN  IF r <= Len(t) /\ t[r] = ")"
                                   THEN [ok |-> TRUE, end |-> r + 1,
                                         cap |-> SubSeq(t, m + 1, q - 1)]
                                   ELSE NoMatch

\* (?:_os)? followed by the rest, greedy with backtracking
SuffixAt(t, j) ==
    LET with == IF HasAt(t, j, OsSuffix) THEN ArgAt(t, j + Len(OsSuffix)) ELSE NoMatch
    IN  IF with.ok THEN with ELSE ArgAt(t, j)

\* extract_regex anchored at index i: the alternatives in the order written
MatchAt(t, i) ==
    LET std    == IF HasAt(t, i, StdEnvVar) THEN SuffixAt(t, i + Len(StdEnvVar)) ELSE NoMatch
        env    == IF HasAt(t, i, EnvVar) THEN SuffixAt(t, i + Len(EnvVar)) ELSE NoMatch
        dotenv == IF HasAt(t, i, DotenvVar) THEN SuffixAt(t, i + Len(DotenvVar)) ELSE NoMatch
    IN  IF std.ok THEN std ELSE IF env.ok THEN env ELSE IF dotenv.ok THEN dotenv ELSE NoMatch

\* Regex::captures_iter, group 1 of each leftmost non-overlapping match
RECURSIVE CapturesFrom(_, _)
CapturesFrom(t, i) ==
    IF i > Len(t) THEN {}
    ELSE LET m == MatchAt(t, i)
         IN  IF m.ok THEN {m.cap} \cup CapturesFrom(t, m.end)
             ELSE CapturesFrom(t, i + 1)

captures_iter(t) == CapturesFrom(t, 1)

-----------------------------------------------------------------------------
(* EnvScanner::scan_file *)

Slashes == <<"/", "/">>

NoIgnore == [some |-> FALSE, list |-> {}]

\* the check done with `contains` on the name instead of on the list
Kept_Substring(names, ign) ==
    IF ign.some THEN {n \in names : \A e \in ign.list : ~Contains(n, e)} ELSE names

\* "Check if variable should be ignored": the names that are inserted
Kept(names, ign) ==
    IF ign.some THEN {n \in names : n \notin ign.list} ELSE names

\* a line the loop does not skip: trimmed, it is neither a comment nor empty
Scanned(line) ==
    LET trimmed_line == Trim(line)
    IN  ~(StartsWith(trimmed_line, Slashes) \/ trimmed_line = <<>>)

\* gated extraction: is_match, then captures_iter
Extract(text) == IF is_match(text) THEN captures_iter(text) ELSE {}

\* branch `if let Some(comment_pos) = line.find("//")`: the part before the marker
SlicedLineNames(line) ==
    LET comment_pos == Find(line, Slashes)
    IN  IF Scanned(line) /\ comment_pos # 0
        THEN Extract(SubSeq(line, 1, comment_pos - 1))
        ELSE {}

\* the else branch: a line without marker, examined whole
WholeLineNames(line) ==
    IF Scanned(line) /\ Find(line, Slashes) = 0 THEN Extract(line) ELSE {}

RECURSIVE TrimmedSurvivors(_)
TrimmedSurvivors(ls) ==
    IF ls = <<>> THEN <<>>
    ELSE (IF Scanned(ls[1]) THEN <<Trim(ls[1])>> ELSE <<>>) \o TrimmedSurvivors(Tail(ls))

RECURSIVE TrimmedNonEmpty(_)
TrimmedNonEmpty(ls) ==
    IF ls = <<>> THEN <<>>
    ELSE (IF Trim(ls[1]) # <<>> THEN <<Trim(ls[1])>> ELSE <<>>) \o TrimmedNonEmpty(Tail(ls))

\* the normalization with the comment lines left in
normalized_content_KeepComments(text) == Join(TrimmedNonEmpty(Lines(text)), <<SP>>)

\* "Handle multiline patterns by normalizing whitespace"
normalized_content(text) == Join(TrimmedSurvivors(Lines(text)), <<SP>>)

SlicedPass(text) ==
    LET ls == Lines(text)
    IN  UNION {SlicedLineNames(ls[i]) : i \in 1..Len(ls)}

WholePass(text) ==
    LET ls == Lines(text)
    IN  UNION {WholeLineNames(ls[i]) : i \in 1..Len(ls)}

\* the third pass run on each surviving line instead of on the joined text
NormalizedPass_PerLine(text) ==
    UNION { Extract(TrimmedSurvivors(Lines(text))[i]) :
              i \in 1..Len(TrimmedSurvivors(Lines(text))) }

NormalizedPass(text) == Extract(normalized_content(text))

\* the set scan_file returns for a readable file
scan_file(text, ign) ==
    Kept(SlicedPass(text), ign) \cup Kept(WholePass(text), ign)
        \cup Kept(NormalizedPass(text), ign)

-----------------------------------------------------------------------------
(* Merge/Writer: read_existing_env and generate_env_file *)

\* a HashMap<String, String> is a function from its keys to their values
EmptyMap == [k \in {} |-> <<>>]

\* HashMap::insert
Insert(m, key, value) ==
    [k \in DOMAIN m \cup {key} |-> IF k = key THEN value ELSE m[k]]

\* the value taken as it stands, blanks included
ParseLine_NoValueTrim(m, raw) ==
    LET line   == Trim(raw)
        eq_pos == Find(line, <<"=">>)
    IN  IF line = <<>> \/ StartsWith(line, <<"#">>) THEN m
        ELSE IF eq_pos = 0 THEN m
        ELSE Insert(m, Trim(SubSeq(line, 1, eq_pos - 1)),
                       SubSeq(raw, Find(raw, <<"=">>) + 1, Len(raw)))

\* the line split at its last equals sign
ParseLine_LastEquals(m, raw) ==
    LET line   == Trim(raw)
        eqs    == {i \in 1..Len(line) : line[i] = "="}
        eq_pos == IF eqs = {} THEN 0 ELSE CHOOSE i \in eqs : \A j \in eqs : j <= i
    IN  IF line = <<>> \/ StartsWith(line, <<"#">>) THEN m
        ELSE IF eq_pos = 0 THEN m
        ELSE Insert(m, Trim(SubSeq(line, 1, eq_pos - 1)),
                       Trim(SubSeq(line, eq_pos + 1, Len(line))))

\* a key that is already in the map keeps its first value
ParseLine_KeepFirst(m, raw) ==
    LET line   == Trim(raw)
        eq_pos == Find(line, <<"=">>)
    IN  IF line = <<>> \/ StartsWith(line, <<"#">>) THEN m
        ELSE IF eq_pos = 0 THEN m
        ELSE IF Trim(SubSeq(line, 1, eq_pos - 1)) \in DOMAIN m THEN m
        ELSE Insert(m, Trim(SubSeq(line, 1, eq_pos - 1)),
                       Trim(SubSeq(line, eq_pos + 1, Len(line))))

\* the loop body of read_existing_env for one line
ParseLine(m, raw) ==
    LET line   == Trim(raw)
        eq_pos == Find(line, <<"=">>)
    IN  IF line = <<>> \/ StartsWith(line, <<"#">>) THEN m
        ELSE IF eq_pos = 0 THEN m
        ELSE Insert(m, Trim(SubSeq(line, 1, eq_pos - 1)),
                       Trim(SubSeq(line, eq_pos + 1, Len(line))))

RECURSIVE ParseLines(_, _)
ParseLines(m, ls) ==
    IF ls = <<>> THEN m ELSE ParseLines(ParseLine(m, ls[1]), Tail(ls))

\* read_existing_env on the output path
read_existing_env(file) ==
    IF file.exists THEN ParseLines(EmptyMap, Lines(file.text)) ELSE EmptyMap

\* String's Ord: byte-wise lexicographic, a proper prefix first
StrLess(a, b) ==
    \/ Len(a) < Len(b) /\ \A k \in 1..Len(a) : a[k] = b[k]
    \/ \E i \in 1..Len(a) :
          /\ i <= Len(b)
          /\ \A k \in 1..(i - 1) : a[k] = b[k]
          /\ Code(a[i]) < Code(b[i])

\* sorted_vars.sort_by(|a, b| a.0.cmp(b.0)) : the keys in ascending order
RECURSIVE SortKeys(_)
SortKeys(S) ==
    IF S = {} THEN <<>>
    ELSE LET least == CHOOSE a \in S : \A b \in S \ {a} : StrLess(a, b)
         IN  <<least>> \o SortKeys(S \ {least})

\* insert in place of entry().or_insert_with: a discovered name is reset
Merge_Overwrite(existing_vars, names) ==
    [k \in DOMAIN existing_vars \cup names |->
        IF k \in names THEN <<>> ELSE existing_vars[k]]

\* the loop over the discovered names left out
Merge_NoNewNames(existing_vars, names) == existing_vars

\* "Add new variables with empty values if they don't exist"
Merge(existing_vars, names) ==
    [k \in DOMAIN existing_vars \cup names |->
        IF k \in DOMAIN existing_vars THEN existing_vars[k] ELSE <<>>]

\* the header without the empty writeln!
Header_NoBlankLine ==
    <<"#", " ", "A">> \o <<NL>> \o <<"#", " ", "A">> \o <<NL>>

Header ==
    <<"#"," ","A","u","t","o","-","g","e","n","e","r","a","t","e","d"," ","e","n","v","i","r","o","n","m","e","n","t"," ","v","a","r","i","a","b","l","e","s">> \o <<NL>>
    \o <<"#"," ","A","d","d"," ","y","o","u","r"," ","v","a","l","u","e","s"," ","b","e","l","o","w">> \o <<NL>>
    \o <<NL>>

\* the writeln! of one entry
EntryLine(key, value) ==
    IF value = <<>> THEN key \o <<"=">> \o <<NL>>
    ELSE key \o <<"=">> \o value \o <<NL>>

RECURSIVE WriteEntries(_, _)
WriteEntries(m, keys) ==
    IF keys = <<>> THEN <<>>
    ELSE EntryLine(keys[1], m[keys[1]]) \o WriteEntries(m, Tail(keys))

\* the existing file read whatever merge_existing says
generate_env_file_AlwaysMerge(names, file, merge) ==
    LET existing_vars == Merge(read_existing_env(file), names)
    IN  Header \o WriteEntries(existing_vars, SortKeys(DOMAIN existing_vars))

\* the text generate_env_file leaves at the output path
generate_env_file(names, file, merge) ==
    LET existing_vars == Merge(IF merge THEN read_existing_env(file) ELSE EmptyMap, names)
    IN  Header \o WriteEntries(existing_vars, SortKeys(DOMAIN existing_vars))


-----------------------------------------------------------------------------
(* Scanned source files *)

MaxFrags == 5

HeadCall == EnvVar \o <<"(">>
LitA     == <<DQ, "A", DQ>>

\* pieces of source text a file is put together from
Frags == { HeadCall, LitA, <<")">>, <<NL>>, Slashes, <<"x">> }

\* every text of at most MaxFrags pieces
FreeFiles == UNION { {Concat(fs) : fs \in [1..k -> Frags]} : k \in 0..MaxFrags }

MaxWs == 1

Spaces(k) == [i \in 1..k |-> SP]

\* what separates the accessor, its argument and the closing parenthesis:
\* spaces, or a line break followed by indentation
Gaps == {Spaces(k) : k \in 0..MaxWs} \cup {<<NL>> \o Spaces(k) : k \in 0..MaxWs}

\* what stands between the parentheses of a call
Args ==
    { LitA,                                          \* "A"
      <<"x">>,                                       \* an identifier
      <<"'", "A", "'">>,                             \* 'A'
      <<>>,                                          \* no argument
      LitA \o <<"+", "x">>,                          \* "A"+x
      <<"x", "(">> \o LitA \o <<")">>,               \* x("A")
      <<DQ, "A">>,                                   \* "A   (quote left open)
      <<"\\", DQ, "A", "\\", DQ>> }                  \* \"A\"

\* what precedes the call on its line
Pres == { <<>>, <<SP>> \o Slashes, <<"x">> \o Slashes, <<DQ>> }

\* what follows the call
Posts == { <<>>, <<SP>> \o Slashes \o <<"x">> }

\* one call, in each of the six spellings, with each argument and surrounding
FormFiles ==
    { pre \o h \o g1 \o arg \o g2 \o <<")">> \o post :
        pre \in Pres, h \in patterns, g1 \in Gaps, arg \in Args,
        g2 \in Gaps, post \in Posts }

IgnoreLists == { NoIgnore, [some |-> TRUE, list |-> {<<"A">>}] }

NoFile == [exists |-> FALSE, text |-> <<>>]

\* Ok(..): no error returned
NoError == [some |-> FALSE, op |-> "", path |-> <<>>]

\* no directory is walked
NoDirectory ==
    /\ tree = <<>>
    /\ rust_files = <<>>
    /\ workers = <<>>
    /\ lock = 0
    /\ all_variables = {}

Init ==
    /\ \/ content \in FreeFiles /\ ignore = NoIgnore
       \/ content \in FormFiles /\ ignore \in IgnoreLists
    /\ mergeExisting = TRUE
    /\ variables = {}
    /\ outFile = NoFile
    /\ prevOut = NoFile
    /\ runs = 0
    /\ pc = "start"
    /\ fault = "none"
    /\ error = NoError
    /\ NoDirectory

MaxRuns == 2

\* scan_file on the file's text (the scan of a generate run, or a scan alone)
ScanFile ==
    /\ pc = "start" \/ (pc = "written" /\ runs < MaxRuns)
    /\ variables' = scan_file(content, ignore)
    /\ pc' = "scanned"
    /\ UNCHANGED <<content, ignore, mergeExisting, outFile, prevOut, runs>>
    /\ UNCHANGED <<fault, error, dirVars>>

Next == ScanFile

Spec == Init /\ [][Next]_vars

-----------------------------------------------------------------------------
(* generate: scan, then generate_env_file on the output path *)

MaxEnvLines == 2

\* names that source files read
GenNames == { <<"A">>, <<"B">>, <<"A", "=", "B">> }

\* lines an existing output file is made of
EnvLines ==
    { <<"A", "=", "1">>,                  \* A=1
      <<"A", "=", "2">>,                  \* A=2
      <<"B", "=">>,                       \* B=
      <<SP, "C", SP, "=", SP, "1", SP>>,  \* C = 1, with blanks around
      <<"C", "=", "1", "=", "2">>,        \* C=1=2
      <<"#", "A", "=", "2">>,             \* a comment
      <<>>,                               \* a blank line
      <<"x">>,                            \* no equals sign
      <<"=", "1">> }                      \* an empty key

RECURSIVE WithNewlines(_)
WithNewlines(ls) ==
    IF ls = <<>> THEN <<>> ELSE ls[1] \o <<NL>> \o WithNewlines(Tail(ls))

EnvFiles ==
    {NoFile} \cup
    UNION { {[exists |-> TRUE, text |-> WithNewlines(ls)] : ls \in [1..k -> EnvLines]} :
              k \in 0..MaxEnvLines }

\* a source file with one call per line, for each of the names
RECURSIVE SourceOf(_)
SourceOf(keys) ==
    IF keys = <<>> THEN <<>>
    ELSE HeadCall \o <<DQ>> \o keys[1] \o <<DQ, ")", NL>> \o SourceOf(Tail(keys))

InitGen ==
    /\ content \in {SourceOf(SortKeys(ns)) : ns \in SUBSET GenNames}
    /\ ignore = NoIgnore
    /\ mergeExisting \in BOOLEAN
    /\ variables = {}
    /\ outFile \in EnvFiles
    /\ prevOut = NoFile
    /\ runs = 0
    /\ pc = "start"
    /\ fault = "none"
    /\ error = NoError
    /\ NoDirectory

\* the read of the existing file at the output path fails
ReadFails == fault = "read" /\ mergeExisting /\ outFile.exists

\* generate_env_file(&variables, output_path), all writes succeeding
GenerateEnvFile ==
    /\ pc = "scanned"
    /\ ~ReadFails /\ fault \notin {"create", "write"}
    /\ outFile' = [exists |-> TRUE,
                   text |-> generate_env_file(variables, outFile, mergeExisting)]
    /\ prevOut' = outFile
    /\ runs' = runs + 1
    /\ pc' = "written"
    /\ UNCHANGED <<content, ignore, mergeExisting, variables>>
    /\ UNCHANGED <<fault, error, dirVars>>

NextGen == ScanFile \/ GenerateEnvFile

SpecGen == InitGen /\ [][NextGen]_vars

-----------------------------------------------------------------------------
(* generate_env_file when the output path refuses a read, the create or a  *)
(* write                                                                   *)

\* the output path as error messages show it
OutputPath == <<".", "e", "n", "v">>

\* the read comes first and the error is returned at once: the target is
\* opened (and emptied) before the existing file is read
GenerateReadError_AfterCreate ==
    /\ pc = "scanned"
    /\ ReadFails
    /\ outFile' = [exists |-> TRUE, text |-> <<>>]
    /\ prevOut' = outFile
    /\ error' = [some |-> TRUE, op |-> "read", path |-> <<>>]
    /\ pc' = "failed"
    /\ UNCHANGED <<content, ignore, mergeExisting, variables, runs, fault, dirVars>>

\* `self.read_existing_env(output_path)?` returns the error of fs::read_to_string
GenerateReadError ==
    /\ pc = "scanned"
    /\ ReadFails
    /\ prevOut' = outFile
    /\ error' = [some |-> TRUE, op |-> "read", path |-> <<>>]
    /\ pc' = "failed"
    /\ UNCHANGED <<content, ignore, mergeExisting, variables, outFile, runs, fault, dirVars>>

\* File::create fails: "Failed to create file: {output_path}"
GenerateCreateError ==
    /\ pc = "scanned"
    /\ ~ReadFails
    /\ fault = "create"
    /\ prevOut' = outFile
    /\ error' = [some |-> TRUE, op |-> "create", path |-> OutputPath]
    /\ pc' = "failed"
    /\ UNCHANGED <<content, ignore, mergeExisting, variables, outFile, runs, fault, dirVars>>

\* File::create has emptied the file and one of the writeln! fails: what was
\* written until then stays in the file
GenerateWriteError ==
    /\ pc = "scanned"
    /\ ~ReadFails
    /\ fault = "write"
    /\ LET new == generate_env_file(variables, outFile, mergeExisting)
       IN  \E k \in 0..(Len(new) - 1) :
               outFile' = [exists |-> TRUE, text |-> SubSeq(new, 1, k)]
    /\ prevOut' = outFile
    /\ error' = [some |-> TRUE, op |-> "write", path |-> <<>>]
    /\ pc' = "failed"
    /\ UNCHANGED <<content, ignore, mergeExisting, variables, runs, fault, dirVars>>

\* names the source files of these runs read
FaultNames == { <<"A">>, <<"B">> }

\* what the output path holds before the run
PriorFiles ==
    { NoFile,
      [exists |-> TRUE, text |-> <<"A", "=", "1", NL>>],
      [exists |-> TRUE, text |-> Header \o <<"B", "=", "2", NL, "C", "=", NL>>] }

InitFault ==
    /\ content \in {SourceOf(SortKeys(ns)) : ns \in SUBSET FaultNames}
    /\ ignore = NoIgnore
    /\ mergeExisting \in BOOLEAN
    /\ variables = {}
    /\ outFile \in PriorFiles
    /\ prevOut = NoFile
    /\ runs = 0
    /\ pc = "start"
    /\ fault \in {"none", "read", "create", "write"}
    /\ error = NoError
    /\ NoDirectory

NextFault ==
    \/ ScanFile
    \/ GenerateEnvFile
    \/ GenerateReadError
    \/ GenerateCreateError
    \/ GenerateWriteError

SpecFault == InitFault /\ [][NextFault]_vars

-----------------------------------------------------------------------------
(* generate with an ignore list *)

IgnoreNames == { <<"A">>, <<"A", "B">>, <<"B">> }

IgnoreConfigs ==
    { NoIgnore,
      [some |-> TRUE, list |-> {}],
      [some |-> TRUE, list |-> {<<"A">>}],
      [some |-> TRUE, list |-> {<<"A">>, <<"B">>}] }

PriorEnvFiles ==
    { NoFile,
      [exists |-> TRUE, text |-> <<"A", "=", "1", NL>>],
      [exists |-> TRUE, text |-> <<"A", "B", "=", "2", NL, "B", "=", NL>>],
      [exists |-> TRUE, text |-> <<"C", "=", "1", NL>>] }

InitIgnore ==
    /\ content \in {SourceOf(SortKeys(ns)) : ns \in SUBSET IgnoreNames}
    /\ ignore \in IgnoreConfigs
    /\ mergeExisting \in BOOLEAN
    /\ variables = {}
    /\ outFile \in PriorEnvFiles
    /\ prevOut = NoFile
    /\ runs = 0
    /\ pc = "start"
    /\ fault = "none"
    /\ error = NoError
    /\ NoDirectory

SpecIgnore == InitIgnore /\ [][NextGen]_vars

-----------------------------------------------------------------------------
(* Tree Walker: find_rust_files *)

\* A tree is a sequence of entries [name, dir, parent, ok, text]: tree[1] is
\* the scan root, parent the index of the directory that holds the entry,
\* ok whether read_dir (read_to_string for a file) succeeds on it.

Target == <<"t", "a", "r", "g", "e", "t">>
Rs     == <<"r", "s">>

None == [some |-> FALSE, ext |-> <<>>]

\* Path::extension: what follows the last dot of the file name, unless the
\* name has no dot or its only dot is its first character
extension(name) ==
    LET dots == {i \in 1..Len(name) : name[i] = "."}
        d    == IF dots = {} THEN 0 ELSE CHOOSE i \in dots : \A j \in dots : j <= i
    IN  IF d <= 1 THEN None ELSE [some |-> TRUE, ext |-> SubSeq(name, d + 1, Len(name))]

\* fs::read_dir: the entries of the directory, in the order the system lists them
RECURSIVE EntriesFrom(_, _, _)
EntriesFrom(t, dir, i) ==
    IF i > Len(t) THEN <<>>
    ELSE (IF t[i].parent = dir THEN <<i>> ELSE <<>>) \o EntriesFrom(t, dir, i + 1)

read_dir(t, dir) == EntriesFrom(t, dir, 1)

RECURSIVE walk_dir(_, _, _)
RECURSIVE WalkEntries(_, _, _)

\* the loop with no directory skipped
WalkEntries_NoSkip(t, entries, files) ==
    IF entries = <<>> THEN [ok |-> TRUE, files |-> files, path |-> 0]
    ELSE LET path == entries[1]
         IN  IF t[path].dir
             THEN LET sub == walk_dir(t, path, files)
                  IN  IF sub.ok THEN WalkEntries(t, Tail(entries), sub.files) ELSE sub
             ELSE IF extension(t[path].name) = [some |-> TRUE, ext |-> Rs]
                  THEN WalkEntries(t, Tail(entries), Append(files, path))
                  ELSE WalkEntries(t, Tail(entries), files)

\* the loop that does not descend into directories
WalkEntries_TopOnly(t, entries, files) ==
    IF entries = <<>> THEN [ok |-> TRUE, files |-> files, path |-> 0]
    ELSE LET path == entries[1]
         IN  IF t[path].dir
             THEN WalkEntries(t, Tail(entries), files)
             ELSE IF extension(t[path].name) = [some |-> TRUE, ext |-> Rs]
                  THEN WalkEntries(t, Tail(entries), Append(files, path))
                  ELSE WalkEntries(t, Tail(entries), files)

\* the loop of walk_dir over the entries still to visit
WalkEntries(t, entries, files) ==
    IF entries = <<>> THEN [ok |-> TRUE, files |-> files, path |-> 0]
    ELSE LET path == entries[1]
         IN  IF t[path].dir
             THEN IF StartsWith(t[path].name, <<".">>) \/ t[path].name = Target
                  THEN WalkEntries(t, Tail(entries), files)
                  ELSE LET sub == walk_dir(t, path, files)
                       IN  IF sub.ok THEN WalkEntries(t, Tail(entries), sub.files) ELSE sub
             ELSE IF extension(t[path].name) = [some |-> TRUE, ext |-> Rs]
                  THEN WalkEntries(t, Tail(entries), Append(files, path))
                  ELSE WalkEntries(t, Tail(entries), files)

\* a directory that cannot be listed is passed over
walk_dir_SkipUnreadable(t, dir, files) ==
    IF ~t[dir].ok THEN [ok |-> TRUE, files |-> files, path |-> 0]
    ELSE WalkEntries(t, read_dir(t, dir), files)

\* walk_dir(dir, files): `fs::read_dir(dir)?`, then the loop
walk_dir(t, dir, files) ==
    IF ~t[dir].ok THEN [ok |-> FALSE, files |-> files, path |-> dir]
    ELSE WalkEntries(t, read_dir(t, dir), files)

find_rust_files(t, dir) == walk_dir(t, dir, <<>>)

\* the output file opened (and emptied) before the walk starts
FindRustFiles_OpensOutput ==
    /\ pc = "start"
    /\ pc' = "scanning"
    /\ outFile' = [exists |-> TRUE, text |-> <<>>]
    /\ rust_files' = <<>>
    /\ workers' = <<>>
    /\ all_variables' = {}
    /\ lock' = 0
    /\ UNCHANGED <<content, ignore, mergeExisting, variables, prevOut, runs, fault, error, tree>>

\* the first lines of scan_directory: the walk, the early return on an empty
\* list, the accumulator
FindRustFiles ==
    /\ pc = "start"
    /\ LET found == find_rust_files(tree, 1)
       IN  IF ~found.ok
           THEN /\ pc' = "failed"
                /\ error' = [some |-> TRUE, op |-> "read_dir", path |-> <<>>]
                /\ UNCHANGED <<variables, rust_files, workers>>
           ELSE IF found.files = <<>>
           THEN /\ pc' = "scanned"
                /\ variables' = {}
                /\ UNCHANGED <<error, rust_files, workers>>
           ELSE /\ pc' = "scanning"
                /\ rust_files' = found.files
                /\ workers' = [i \in 1..Len(found.files) |-> [pc |-> "ready", variables |-> {}]]
                /\ UNCHANGED <<error, variables>>
    /\ all_variables' = {}
    /\ lock' = 0
    /\ UNCHANGED <<content, ignore, mergeExisting, outFile, prevOut, runs, fault, tree>>

MaxEntries == 3

DirNames == { <<"s">>, Target, <<".", "g">>, Target \o <<"s">> }

FileNames == { <<"a", ".", "r", "s">>, <<"a", ".", "t">>, <<".", "r", "s">> }

RootNames == { <<"p">>, Target, <<".", "t">> }

\* every file of these trees reads a variable
CallA == SourceOf(<<<<"A">>>>)

\* the scan root and, below it, the entries named nm[i] in the directories pm[i]
TreeOf(r, pm, nm) ==
    [i \in 1..(Len(nm) + 1) |->
        IF i = 1 THEN [name |-> r, dir |-> TRUE, parent |-> 0, ok |-> TRUE, text |-> <<>>]
        ELSE [name |-> nm[i - 1], dir |-> nm[i - 1] \in DirNames, parent |-> pm[i - 1],
              ok |-> TRUE, text |-> IF nm[i - 1] \in DirNames THEN <<>> ELSE CallA]]

\* entries lie in directories created before them; no two entries of a
\* directory have the same name
IsTree(t) ==
    \A i \in 2..Len(t) :
        /\ t[i].parent < i /\ t[t[i].parent].dir
        /\ \A j \in 2..Len(t) : j # i /\ t[j].parent = t[i].parent => t[j].name # t[i].name

InitWalk ==
    /\ content = <<>>
    /\ ignore = NoIgnore
    /\ mergeExisting = TRUE
    /\ variables = {}
    /\ outFile = NoFile
    /\ prevOut = NoFile
    /\ runs = 0
    /\ pc = "start"
    /\ fault = "none"
    /\ error = NoError
    /\ \E n \in 0..MaxEntries, r \in RootNames :
           \E pm \in [1..n -> 1..MaxEntries], nm \in [1..n -> DirNames \cup FileNames] :
               /\ tree = TreeOf(r, pm, nm)
               /\ IsTree(tree)
    /\ rust_files = <<>>
    /\ workers = <<>>
    /\ lock = 0
    /\ all_variables = {}

NextWalk == FindRustFiles

SpecWalk == InitWalk /\ [][NextWalk]_vars

\* trees with one directory that cannot be listed
BadDirNames  == { <<"s">>, Target }

BadFileNames == { <<"a", ".", "r", "s">> }

\* tree t with read_dir failing on directory d
Unlistable(t, d) == [t EXCEPT ![d].ok = FALSE]

InitWalkBad ==
    /\ content = <<>>
    /\ ignore = NoIgnore
    /\ mergeExisting = TRUE
    /\ variables = {}
    /\ outFile = NoFile
    /\ prevOut = NoFile
    /\ runs = 0
    /\ pc = "start"
    /\ fault = "none"
    /\ error = NoError
    /\ \E n \in 0..MaxEntries :
           \E pm \in [1..n -> 1..MaxEntries], nm \in [1..n -> BadDirNames \cup BadFileNames] :
               LET t == TreeOf(<<"p">>, pm, nm)
               IN  /\ IsTree(t)
                   /\ \E d \in {i \in 1..(n + 1) : t[i].dir} : tree = Unlistable(t, d)
    /\ rust_files = <<>>
    /\ workers = <<>>
    /\ lock = 0
    /\ all_variables = {}

SpecWalkBad == InitWalkBad /\ [][NextWalk]_vars

-----------------------------------------------------------------------------
(* Parallel Orchestrator: the rest of scan_directory *)

\* where the closure stands once scan_file has returned Ok(variables)
AfterScan(vs) == [pc |-> IF vs = {} THEN "done" ELSE "waiting", variables |-> vs]

\* the closure body up to `self.scan_file(file)?` on rust_files[i]
WorkerScan(i) ==
    /\ pc = "scanning"
    /\ workers[i].pc = "ready"
    /\ IF tree[rust_files[i]].ok
       THEN workers' = [workers EXCEPT
                          ![i] = AfterScan(scan_file(tree[rust_files[i]].text, ignore))]
       ELSE workers' = [workers EXCEPT ![i].pc = "failed"]
    /\ UNCHANGED <<content, ignore, mergeExisting, variables, outFile, prevOut, runs, pc,
                   fault, error, tree, rust_files, lock, all_variables>>

\* all_variables.lock().unwrap()
WorkerLock(i) ==
    /\ pc = "scanning"
    /\ workers[i].pc = "waiting"
    /\ lock = 0
    /\ lock' = i
    /\ workers' = [workers EXCEPT ![i].pc = "locked"]
    /\ UNCHANGED <<content, ignore, mergeExisting, variables, outFile, prevOut, runs, pc,
                   fault, error, tree, rust_files, all_variables>>

\* the set replaced by the worker's names instead of extended
WorkerExtend_Overwrite(i) ==
    /\ pc = "scanning"
    /\ workers[i].pc = "locked"
    /\ all_variables' = workers[i].variables
    /\ workers' = [workers EXCEPT ![i].pc = "extended"]
    /\ UNCHANGED <<content, ignore, mergeExisting, variables, outFile, prevOut, runs, pc,
                   fault, error, tree, rust_files, lock>>

\* all_vars.extend(variables)
WorkerExtend(i) ==
    /\ pc = "scanning"
    /\ workers[i].pc = "locked"
    /\ all_variables' = all_variables \cup workers[i].variables
    /\ workers' = [workers EXCEPT ![i].pc = "extended"]
    /\ UNCHANGED <<content, ignore, mergeExisting, variables, outFile, prevOut, runs, pc,
                   fault, error, tree, rust_files, lock>>

\* the closure returning with the guard still held
WorkerUnlock_KeepLock(i) ==
    /\ pc = "scanning"
    /\ workers[i].pc = "extended"
    /\ workers' = [workers EXCEPT ![i].pc = "done"]
    /\ UNCHANGED <<content, ignore, mergeExisting, variables, outFile, prevOut, runs, pc,
                   fault, error, tree, rust_files, lock, all_variables>>

\* the guard dropped at the end of the `if` block; the closure returns Ok(())
WorkerUnlock(i) ==
    /\ pc = "scanning"
    /\ workers[i].pc = "extended"
    /\ lock' = 0
    /\ workers' = [workers EXCEPT ![i].pc = "done"]
    /\ UNCHANGED <<content, ignore, mergeExisting, variables, outFile, prevOut, runs, pc,
                   fault, error, tree, rust_files, all_variables>>

\* the closures that failed counted as finished
ReturnOk_DespiteFailure ==
    /\ pc = "scanning"
    /\ \A i \in 1..Len(workers) : workers[i].pc \in {"done", "failed"}
    /\ variables' = all_variables
    /\ pc' = "scanned"
    /\ UNCHANGED <<content, ignore, mergeExisting, outFile, prevOut, runs,
                   fault, error, dirVars>>

\* every closure returned Ok(()): Ok(all_variables.into_inner().unwrap())
ReturnOk ==
    /\ pc = "scanning"
    /\ \A i \in 1..Len(workers) : workers[i].pc = "done"
    /\ variables' = all_variables
    /\ pc' = "scanned"
    /\ UNCHANGED <<content, ignore, mergeExisting, outFile, prevOut, runs,
                   fault, error, dirVars>>

\* a closure returned Err: try_for_each starts no further closure, waits for
\* those that run, and `?` returns the error ("Failed to read file: {path}")
ReturnErr ==
    /\ pc = "scanning"
    /\ \A i \in 1..Len(workers) : workers[i].pc \in {"ready", "done", "failed"}
    /\ \E i \in 1..Len(workers) :
          /\ workers[i].pc = "failed"
          /\ error' = [some |-> TRUE, op |-> "read_file", path |-> tree[rust_files[i]].name]
    /\ pc' = "failed"
    /\ UNCHANGED <<content, ignore, mergeExisting, variables, outFile, prevOut, runs,
                   fault, dirVars>>

MaxFiles == 2

\* what a source file of these directories holds
FileTexts ==
    { SourceOf(<<<<"A">>>>),
      SourceOf(<<<<"A">>, <<"A", "B">>>>),
      SourceOf(<<<<"B">>>>),
      <<"x", NL>> }

Letters == <<"a", "b", "c", "d">>

\* a directory of readable files with the texts tx[i]; the files whose index
\* is in bad cannot be read
FlatTree(tx, bad) ==
    [i \in 1..(Len(tx) + 1) |->
        IF i = 1 THEN [name |-> <<"p">>, dir |-> TRUE, parent |-> 0, ok |-> TRUE, text |-> <<>>]
        ELSE [name |-> <<Letters[i - 1]>> \o <<".">> \o Rs, dir |-> FALSE, parent |-> 1,
              ok |-> (i - 1) \notin bad,
              text |-> IF (i - 1) \in bad THEN <<>> ELSE tx[i - 1]]]

InitPar ==
    /\ content = <<>>
    /\ ignore \in IgnoreConfigs
    /\ mergeExisting = TRUE
    /\ variables = {}
    /\ outFile = NoFile
    /\ prevOut = NoFile
    /\ runs = 0
    /\ pc = "start"
    /\ fault = "none"
    /\ error = NoError
    /\ \E n \in 0..MaxFiles :
           \E tx \in [1..n -> FileTexts], bad \in SUBSET (1..n) :
               tree = FlatTree(tx, bad)
    /\ rust_files = <<>>
    /\ workers = <<>>
    /\ lock = 0
    /\ all_variables = {}

NextPar ==
    \/ FindRustFiles
    \/ \E i \in 1..Len(workers) : WorkerScan(i)
    \/ \E i \in 1..Len(workers) : WorkerLock(i)
    \/ \E i \in 1..Len(workers) : WorkerExtend(i)
    \/ \E i \in 1..Len(workers) : WorkerUnlock(i)
    \/ ReturnOk
    \/ ReturnErr

SpecPar == InitPar /\ [][NextPar]_vars

\* what a closure can hold when its file scan is over
ScanOutcomes ==
    [pc : {"done", "waiting", "failed"},
     variables : SUBSET {<<"A">>, <<"B">>, <<"A", "B">>}]

\* the closure on rust_files[i] gets to the end of its file scan: the step
\* WorkerScan(i) takes, whatever the file holds
ScanEnds(i) ==
    /\ pc = "scanning"
    /\ workers[i].pc = "ready"
    /\ \E r \in ScanOutcomes : workers' = [workers EXCEPT ![i] = r]
    /\ UNCHANGED <<content, ignore, mergeExisting, variables, outFile, prevOut, runs, pc,
                   fault, error, tree, rust_files, lock, all_variables>>

\* a step of the caller or of a closure the thread pool has to run
Scheduled ==
    \/ FindRustFiles
    \/ \E i \in 1..MaxFiles : i <= Len(workers) /\ ScanEnds(i)
    \/ \E i \in 1..MaxFiles : i <= Len(workers) /\ WorkerLock(i)
    \/ \E i \in 1..MaxFiles : i <= Len(workers) /\ WorkerExtend(i)
    \/ \E i \in 1..MaxFiles : i <= Len(workers) /\ WorkerUnlock(i)
    \/ ReturnOk
    \/ ReturnErr

\* the thread pool runs every closure it has started, and the caller, as long
\* as one of them can take a step
SpecParFair == InitPar /\ [][NextPar]_vars /\ WF_vars(Scheduled)

-----------------------------------------------------------------------------
(* generate_env_file_with_config and generate_env_file_to: scan_directory, *)
(* then generate_env_file on the output path                               *)

\* what the output path holds before the run
LibPriorFiles ==
    { NoFile,
      [exists |-> TRUE, text |-> Header],
      [exists |-> TRUE, text |-> <<"A", "=", "1", NL>>] }

InitLib ==
    /\ content = <<>>
    /\ ignore = NoIgnore
    /\ mergeExisting \in BOOLEAN
    /\ variables = {}
    /\ outFile \in LibPriorFiles
    /\ prevOut = NoFile
    /\ runs = 0
    /\ pc = "start"
    /\ fault = "none"
    /\ error = NoError
    /\ \E n \in 0..MaxFiles :
           \E tx \in [1..n -> FileTexts], bad \in SUBSET (1..n) :
               tree \in {FlatTree(tx, bad), Unlistable(FlatTree(tx, bad), 1)}
    /\ rust_files = <<>>
    /\ workers = <<>>
    /\ lock = 0
    /\ all_variables = {}

NextLib ==
    \/ FindRustFiles
    \/ \E i \in 1..Len(workers) : WorkerScan(i)
    \/ \E i \in 1..Len(workers) : WorkerLock(i)
    \/ \E i \in 1..Len(workers) : WorkerExtend(i)
    \/ \E i \in 1..Len(workers) : WorkerUnlock(i)
    \/ ReturnOk
    \/ ReturnErr
    \/ GenerateEnvFile

SpecLib == InitLib /\ [][NextLib]_vars

-----------------------------------------------------------------------------
(* The `generate` command of the CLI (src/src/main.rs): scan_directory,    *)
(* then generate_env_file unless the set of names is empty.                *)

\* the command writing the output file although no name was found
CliNoVariables_WritesFile ==
    /\ pc = "scanned"
    /\ variables = {}
    /\ outFile' = [exists |-> TRUE,
                   text |-> generate_env_file(variables, outFile, mergeExisting)]
    /\ pc' = "done"
    /\ UNCHANGED <<content, ignore, mergeExisting, variables, prevOut, runs,
                   fault, error, dirVars>>

\* if variables.is_empty() { println!(..); return Ok(()); }
CliNoVariables ==
    /\ pc = "scanned"
    /\ variables = {}
    /\ pc' = "done"
    /\ UNCHANGED <<content, ignore, mergeExisting, variables, outFile, prevOut, runs,
                   fault, error, dirVars>>

\* scanner.generate_env_file(&variables, &output_path)
CliGenerate ==
    /\ variables # {}
    /\ GenerateEnvFile

\* --ignore lists given on the command line
CliIgnores == { NoIgnore, [some |-> TRUE, list |-> {<<"A">>, <<"A", "B">>, <<"B">>}] }

\* mergeExisting is FALSE under --no-merge
InitCli ==
    /\ content = <<>>
    /\ ignore \in CliIgnores
    /\ mergeExisting \in BOOLEAN
    /\ variables = {}
    /\ outFile \in LibPriorFiles
    /\ prevOut = NoFile
    /\ runs = 0
    /\ pc = "start"
    /\ fault = "none"
    /\ error = NoError
    /\ \E n \in 0..MaxFiles :
           \E tx \in [1..n -> FileTexts], bad \in SUBSET (1..n) :
               tree = FlatTree(tx, bad)
    /\ rust_files = <<>>
    /\ workers = <<>>
    /\ lock = 0
    /\ all_variables = {}

NextCli ==
    \/ FindRustFiles
    \/ \E i \in 1..Len(workers) : WorkerScan(i)
    \/ \E i \in 1..Len(workers) : WorkerLock(i)
    \/ \E i \in 1..Len(workers) : WorkerExtend(i)
    \/ \E i \in 1..Len(workers) : WorkerUnlock(i)
    \/ ReturnOk
    \/ ReturnErr
    \/ CliNoVariables
    \/ CliGenerate

SpecCli == InitCli /\ [][NextCli]_vars

-----------------------------------------------------------------------------
(* Reading the source text as the claims describe it *)

\* a character of a variable name
IsNameChar(c) == c \in {"A", "B", "C", "_", "-", "1", "2"}

\* index of the first double quote after index a, 0 if there is none
NextQuote(t, a) ==
    LET qs == {q \in (a + 1)..Len(t) : t[q] = DQ}
    IN  IF qs = {} THEN 0 ELSE CHOOSE q \in qs : \A r \in qs : q <= r

\* the line has, at index i, the accessor spelling p, then inside the
\* parentheses only whitespace around the double-quoted literal `name`
CallOnLine(line, i, p, name) ==
    /\ HasAt(line, i, p)
    /\ LET a == SkipWs(line, i + Len(p))
           q == NextQuote(line, a)
       IN  /\ a <= Len(line) /\ line[a] = DQ
           /\ q # 0
           /\ name = SubSeq(line, a + 1, q - 1)
           /\ LET r == SkipWs(line, q + 1)
              IN  r <= Len(line) /\ line[r] = ")"

\* the names of the literal calls written on the line
CallsOnLine(line) ==
    LET opens == {a \in 1..Len(line) : line[a] = DQ /\ NextQuote(line, a) # 0}
        lits  == {SubSeq(line, a + 1, NextQuote(line, a) - 1) : a \in opens}
    IN  { n \in lits :
            /\ \A k \in 1..Len(n) : IsNameChar(n[k])
            /\ \E i \in 1..Len(line), p \in patterns : CallOnLine(line, i, p, n) }

\* the line is a full-line comment: trimmed, it begins with the marker
IsCommentLine(line) == StartsWith(Trim(line), Slashes)

LineSet(text) == LET ls == Lines(text) IN {ls[k] : k \in 1..Len(ls)}

-----------------------------------------------------------------------------
-----------------------------------------------------------------------------
(* C7 *)

RECURSIVE CutLines(_)
CutLines(ls) ==
    IF ls = <<>> THEN <<>>
    ELSE LET comment_pos == Find(ls[1], Slashes)
         IN  <<IF comment_pos = 0 THEN ls[1] ELSE SubSeq(ls[1], 1, comment_pos - 1)>>
                 \o CutLines(Tail(ls))

\* the text with every line cut at its first comment marker
CutAtMarkers(text) == Join(CutLines(Lines(text)), <<NL>>)

(* C7: a call that appears after a comment marker on the same physical     *)
(* line contributes no name, in any pass: every name of the result is also *)
(* found when only the text preceding the marker of each line is scanned.  *)
C7_NothingAfterMarker ==
    pc = "scanned" => variables \subseteq scan_file(CutAtMarkers(content), ignore)

-----------------------------------------------------------------------------
(* C8 *)

RECURSIVE NonCommentLines(_)
NonCommentLines(ls) ==
    IF ls = <<>> THEN <<>>
    ELSE (IF IsCommentLine(ls[1]) THEN <<>> ELSE <<ls[1]>>) \o NonCommentLines(Tail(ls))

\* the text without its full-line comments
DropCommentLines(text) == Join(NonCommentLines(Lines(text)), <<NL>>)

(* C8: a line whose trimmed text begins with the comment marker contributes *)
(* nothing in any pass: the result is the result for the text without such  *)
(* lines, and it is empty when every accessor of the file is on such a line. *)
C8_CommentLinesSkipped ==
    pc = "scanned" =>
        /\ variables = scan_file(DropCommentLines(content), ignore)
        /\ (\A line \in LineSet(content) : Contains(line, EnvVar) => IsCommentLine(line))
               => variables = {}

\* a full-line comment that holds a literal call, and an empty result
C8_Witness ==
    /\ pc = "scanned"
    /\ variables = {}
    /\ ~ignore.some
    /\ \E line \in LineSet(content) : IsCommentLine(line) /\ CallsOnLine(line) # {}

-----------------------------------------------------------------------------
(* C9 *)

EndsWith(s, p) == Len(p) <= Len(s) /\ HasAt(s, Len(s) - Len(p) + 1, p)

\* lines k, k+1, k+2 are: accessor with opening parenthesis / "n" / closing
\* parenthesis, with nothing but whitespace and the line breaks between them
SplitCall(ls, k, n) ==
    /\ k + 2 <= Len(ls)
    /\ ~IsCommentLine(ls[k])
    /\ \E p \in patterns : EndsWith(Trim(ls[k]), p)
    /\ ~Contains(ls[k], <<DQ>>)
    /\ Trim(ls[k + 1]) = <<DQ>> \o n \o <<DQ>>
    /\ \A j \in 1..Len(n) : IsNameChar(n[j])
    /\ StartsWith(Trim(ls[k + 2]), <<")">>)
    /\ ~Contains(ls[k + 2], <<DQ>>)

(* C9: a call split over three consecutive lines yields its literal through *)
(* the whole-file normalization pass, while the two line-wise passes        *)
(* extract nothing from those lines.                                        *)
C9_SplitCallFound ==
    pc = "scanned" =>
        LET ls == Lines(content)
        IN  \A k \in 1..Len(ls) :
                \A n \in {<<"A">>} :
                    SplitCall(ls, k, n) =>
                        /\ n \in NormalizedPass(content)
                        /\ (ignore.some /\ n \in ignore.list) \/ n \in variables
                        /\ \A j \in k..(k + 2) :
                              /\ SlicedLineNames(ls[j]) = {}
                              /\ WholeLineNames(ls[j]) = {}

\* a split call that the normalization pass alone finds
C9_Witness ==
    /\ pc = "scanned"
    /\ <<"A">> \in variables
    /\ SlicedPass(content) = {} /\ WholePass(content) = {}
    /\ \E k \in 1..Len(Lines(content)) : SplitCall(Lines(content), k, <<"A">>)

-----------------------------------------------------------------------------
(* C10 *)

\* index of the first character of the line that holds index i
LineStart(t, i) ==
    LET nls == {m \in 1..(i - 1) : t[m] = NL}
    IN  IF nls = {} THEN 1 ELSE 1 + CHOOSE m \in nls : \A o \in nls : m >= o

\* index i lies on a full-line comment
OnCommentLine(t, i) ==
    LET s == LineStart(t, i)
        k == SkipWs(t, s)
    IN  (\A m \in s..(k - 1) : t[m] # NL) /\ HasAt(t, k, Slashes)

\* what lexically separates two tokens of a call: whitespace, line breaks
\* and full-line comments
RECURSIVE SkipGap(_, _)
SkipGap(t, i) ==
    LET j == SkipWs(t, i)
    IN  IF j <= Len(t) /\ HasAt(t, j, Slashes) /\ OnCommentLine(t, j)
             /\ \A m \in LineStart(t, j)..(j - 1) : IsSpace(t[m])
        THEN LET nls == {m \in j..Len(t) : t[m] = NL}
             IN  IF nls = {} THEN Len(t) + 1
                 ELSE SkipGap(t, 1 + CHOOSE m \in nls : \A o \in nls : m <= o)
        ELSE j

\* at index i of the file stands an accessor whose parenthesis is followed by
\* a double-quoted literal that the closing parenthesis follows; n is the
\* literal (any n, when the literal runs over a line break)
LiteralCallAt(t, i, n) ==
    \E name \in {StdEnvVar, EnvVar, DotenvVar}, sfx \in {<<>>, OsSuffix} :
        /\ HasAt(t, i, name \o sfx)
        /\ ~OnCommentLine(t, i)
        /\ LET g1 == SkipGap(t, i + Len(name) + Len(sfx))
               g2 == SkipGap(t, g1 + 1)
               q  == NextQuote(t, g2)
               g3 == SkipGap(t, q + 1)
           IN  /\ g1 <= Len(t) /\ t[g1] = "("
               /\ g2 <= Len(t) /\ t[g2] = DQ
               /\ q # 0
               /\ n = SubSeq(t, g2 + 1, q - 1) \/ Contains(SubSeq(t, g2 + 1, q - 1), <<NL>>)
               /\ g3 <= Len(t) /\ t[g3] = ")"

(* C10: a call whose opening parenthesis is followed by anything but a      *)
(* double-quoted literal closed by the parenthesis (an identifier, an       *)
(* expression, a single-quoted argument, no argument) contributes no name:  *)
(* every name of the result is the literal of a call of the file that has   *)
(* a double-quoted literal as its whole argument.                           *)
C10_OnlyLiteralArguments ==
    pc = "scanned" =>
        \A n \in variables : \E i \in 1..Len(content) : LiteralCallAt(content, i, n)

\* a call with a single-quoted argument, and an empty result
C10_Witness ==
    /\ pc = "scanned"
    /\ variables = {}
    /\ ~ignore.some
    /\ \E i \in 1..Len(content), p \in patterns :
          /\ HasAt(content, i, p \o <<"'", "A", "'", ")">>)
          /\ ~OnCommentLine(content, i)
          /\ ~LiteralCallAt(content, i, <<"A">>)

-----------------------------------------------------------------------------
(* Reading the written file *)

\* the lines of the file below the header (two comment lines, one blank line)
EntryLinesOf(file) == LET ls == Lines(file.text) IN SubSeq(ls, 4, Len(ls))

EntryLineSet(file) == LET ls == EntryLinesOf(file) IN {ls[i] : i \in 1..Len(ls)}

\* the key of an entry line: the trimmed text before its first equals sign
KeyOfLine(line) == Trim(SubSeq(line, 1, Find(line, <<"=">>) - 1))

(* C2: with mergeExisting and an existing output file, every key of the     *)
(* existing file is written with the value parsed from that file, and a key *)
(* that is also discovered keeps its value: it is not written empty.        *)
C2_ExistingValuesKept ==
    (pc = "written" /\ mergeExisting /\ prevOut.exists) =>
        LET existing == read_existing_env(prevOut)
        IN  \A k \in DOMAIN existing :
                /\ (k \o <<"=">> \o existing[k]) \in EntryLineSet(outFile)
                /\ (k \in variables /\ existing[k] # <<>>)
                       => (k \o <<"=">>) \notin EntryLineSet(outFile)

\* an existing key with a value is discovered again, and a run has written
C2_Witness ==
    /\ pc = "written" /\ mergeExisting /\ prevOut.exists
    /\ \E k \in DOMAIN read_existing_env(prevOut) :
          k \in variables /\ read_existing_env(prevOut)[k] # <<>>

(* C3: re-running generate (scan, then generate_env_file with mergeExisting) *)
(* on an unchanged source tree leaves the output file byte-identical to the  *)
(* file the previous run wrote.                                              *)
C3_RerunIdentical ==
    (pc = "written" /\ mergeExisting /\ runs >= 2) => outFile = prevOut

(* C4: with mergeExisting the keys written are those of the existing file   *)
(* together with the discovered names, and each discovered name the         *)
(* existing file lacks is written as `NAME=`.                               *)
C4_KeysAreUnion ==
    (pc = "written" /\ mergeExisting) =>
        LET existing == read_existing_env(prevOut)
        IN  /\ EntryLineSet(outFile) =
                   {k \o <<"=">> \o existing[k] : k \in DOMAIN existing}
                   \cup {n \o <<"=">> : n \in variables \ DOMAIN existing}
            /\ Len(EntryLinesOf(outFile)) = Cardinality(DOMAIN existing \cup variables)

\* new names next to existing keys that were not discovered
C4_Witness ==
    /\ pc = "written" /\ mergeExisting
    /\ variables \ DOMAIN read_existing_env(prevOut) # {}
    /\ DOMAIN read_existing_env(prevOut) \ variables # {}

(* C5: in every written file the entry lines have pairwise distinct keys,   *)
(* in ascending byte-lexical order.                                         *)
C5_KeysSortedDistinct ==
    pc = "written" =>
        \A i, j \in 1..Len(EntryLinesOf(outFile)) :
            i < j => StrLess(KeyOfLine(EntryLinesOf(outFile)[i]),
                             KeyOfLine(EntryLinesOf(outFile)[j]))

(* C6: with mergeExisting false the existing file is not consulted: the     *)
(* written entries are exactly the discovered names, each with an empty     *)
(* value.                                                                   *)
C6_NoMergeOnlyDiscovered ==
    (pc = "written" /\ ~mergeExisting) =>
        /\ EntryLineSet(outFile) = {n \o <<"=">> : n \in variables}
        /\ Len(EntryLinesOf(outFile)) = Cardinality(variables)

\* the previous file had a value for a discovered key and an undiscovered key
C6_Witness ==
    /\ pc = "written" /\ ~mergeExisting /\ prevOut.exists
    /\ \E k \in DOMAIN read_existing_env(prevOut) :
          k \in variables /\ read_existing_env(prevOut)[k] # <<>>
    /\ DOMAIN read_existing_env(prevOut) \ variables # {}

-----------------------------------------------------------------------------
(* Source files with calls written in unusual ways *)

\* the accessor names, without the parenthesis
Accessors == {SubSeq(p, 1, Len(p) - 1) : p \in patterns}

LitC == <<DQ, "C", DQ>>

\* what stands between the accessor's name and its parenthesis
HeadGaps == {Spaces(k) : k \in 0..MaxWs} \cup {<<NL>>}

\* what precedes the call: nothing, or a line with an ordinary call
Befores == { <<>>, HeadCall \o LitC \o <<")", NL>> }

\* what follows the opening quote of the argument
Rests ==
    { <<"A", DQ, ")">>,                              \* A")
      <<"A", NL, DQ, ")">>,                          \* A, closed on the next line
      <<"A", NL, "B", DQ, ")">>,                     \* A, then B") on the next line
      <<NL, DQ, ")">>,                               \* closed on the next line
      <<"A", SP, NL, SP, DQ, SP, ")">>,              \* the same with blanks
      <<"A", NL, "x">>,                              \* never closed
      <<"A">>,                                       \* end of file
      <<"A", ";", NL, "x", "(", DQ, "B", DQ, ")">> } \* A; then x("B")

EdgeFiles ==
    { b \o a \o g \o <<"(", DQ>> \o r :
        b \in Befores, a \in Accessors, g \in HeadGaps, r \in Rests }

InitEdge ==
    /\ content \in EdgeFiles
    /\ ignore = NoIgnore
    /\ mergeExisting = TRUE
    /\ variables = {}
    /\ outFile = NoFile
    /\ prevOut = NoFile
    /\ runs = 0
    /\ pc = "start"
    /\ fault = "none"
    /\ error = NoError
    /\ NoDirectory

SpecEdge == InitEdge /\ [][Next]_vars

-----------------------------------------------------------------------------
(* Source files with a call written inside a string literal *)

\* \" : a quote inside a string literal
EscQuote == <<"\\", DQ>>

\* what precedes the literal on its line
LiteralPres == { <<"x", "(">>, HeadCall }

\* what follows the literal
LiteralPosts == { <<")", ";">>, <<")", ";", NL>> \o HeadCall \o LitC \o <<")">> }

\* x("... std::env::var(\"A\") ...") and the like
EscapedFiles ==
    { pre \o <<DQ>> \o lead \o a \o <<"(">> \o g1 \o EscQuote \o <<"A">> \o EscQuote
          \o g2 \o <<")">> \o lead \o <<DQ>> \o post :
        pre \in LiteralPres, lead \in {<<>>, <<"x", SP>>}, a \in Accessors,
        g1 \in Gaps, g2 \in Gaps, post \in LiteralPosts }

InitEscaped ==
    /\ content \in EscapedFiles
    /\ ignore = NoIgnore
    /\ mergeExisting = TRUE
    /\ variables = {}
    /\ outFile = NoFile
    /\ prevOut = NoFile
    /\ runs = 0
    /\ pc = "start"
    /\ fault = "none"
    /\ error = NoError
    /\ NoDirectory

SpecEscaped == InitEscaped /\ [][Next]_vars

-----------------------------------------------------------------------------
(* C11: a call whose opening double quote is not closed on its own source  *)
(* line is never extracted: whatever the following lines contain, no name  *)
(* that starts at that quote is in the result of scan_file.                *)

\* index of the last character of the line that holds index i
LineEnd(t, i) ==
    LET nls == {j \in i..Len(t) : t[j] = NL}
    IN  IF nls = {} THEN Len(t) ELSE (CHOOSE j \in nls : \A k \in nls : j <= k) - 1

\* s without its trailing whitespace
TrimEnd(s) ==
    LET ks == {k \in 1..Len(s) : ~IsSpace(s[k])}
    IN  IF ks = {} THEN <<>> ELSE SubSeq(s, 1, CHOOSE k \in ks : \A j \in ks : j <= k)

\* index m holds the opening quote of the argument of an accessor call
OpensArgument(t, m) ==
    \E i \in 1..Len(t), a \in Accessors :
        /\ HasAt(t, i, a)
        /\ LET k == SkipWs(t, i + Len(a))
           IN  k <= Len(t) /\ t[k] = "(" /\ SkipWs(t, k + 1) = m
        /\ m <= Len(t) /\ t[m] = DQ

\* the quote at m is left open on its line
UnclosedOnLine(t, m) == \A q \in (m + 1)..LineEnd(t, m) : t[q] # DQ

\* a name that starts at the quote at m and runs over the end of its line:
\* the rest of the line, the blank that replaces the line break, and more
StartsAtQuote(n, t, m) ==
    StartsWith(n, TrimEnd(SubSeq(t, m + 1, LineEnd(t, m))) \o <<SP>>)

C11_UnterminatedNeverExtracted ==
    pc = "scanned" =>
        \A m \in 1..Len(content) :
            OpensArgument(content, m) /\ UnclosedOnLine(content, m)
                => \A n \in variables : ~StartsAtQuote(n, content, m)

-----------------------------------------------------------------------------
(* C18: the literal matcher has no false negatives: on every span of text  *)
(* the scanner examines (a line, the part of a line before its comment     *)
(* marker, the normalized text), the matcher returns true whenever the     *)
(* extraction regex finds a match, so the scan returns the names the regex *)
(* alone would give.                                                       *)

\* the spans of text the three passes hand to the matcher
SpansOf(text) ==
    LET ls == Lines(text)
    IN  {ls[i] : i \in {j \in 1..Len(ls) : Scanned(ls[j]) /\ Find(ls[j], Slashes) = 0}}
        \cup {SubSeq(ls[i], 1, Find(ls[i], Slashes) - 1) :
                i \in {j \in 1..Len(ls) : Scanned(ls[j]) /\ Find(ls[j], Slashes) # 0}}
        \cup {normalized_content(text)}

C18_GateHasNoFalseNegatives ==
    pc = "scanned" =>
        /\ \A span \in SpansOf(content) : captures_iter(span) # {} => is_match(span)
        /\ variables = Kept(UNION {captures_iter(span) : span \in SpansOf(content)}, ignore)

-----------------------------------------------------------------------------
(* C13: a name of the ignore list is excluded from the generated output    *)
(* whether or not it is detected: after a generate run no entry of the     *)
(* written file has an ignored name as its key, for any prior content of   *)
(* the output file and either merge setting.                               *)

C13_IgnoredNeverWritten ==
    pc = "written" /\ ignore.some =>
        \A line \in EntryLineSet(outFile) : KeyOfLine(line) \notin ignore.list

-----------------------------------------------------------------------------
(* C19: no file is partially written: when generate_env_file fails at any  *)
(* step, the output path holds its previous content or the complete new    *)
(* content.                                                                *)

C19_NoPartialFile ==
    pc = "failed" =>
        \/ outFile = prevOut
        \/ /\ outFile.exists
           /\ outFile.text = generate_env_file(variables, prevOut, mergeExisting)

-----------------------------------------------------------------------------
(* C20: with mergeExisting true, when the existing output file cannot be   *)
(* read, generate_env_file fails, and it fails before the target is opened *)
(* for writing: the file is as it was.                                     *)

C20_UnreadableLeavesFile ==
    pc \in {"written", "failed"} /\ mergeExisting /\ fault = "read" /\ prevOut.exists =>
        /\ pc = "failed"
        /\ error.some /\ error.op = "read"
        /\ outFile = prevOut

C20_Witness ==
    /\ pc = "failed"
    /\ error.op = "read"
    /\ mergeExisting
    /\ prevOut.exists /\ prevOut.text # <<>>
    /\ variables # {}
    /\ outFile = prevOut

-----------------------------------------------------------------------------
(* Reading the tree as the claims describe it *)

\* the directories the entry lies in, up to the scan root
RECURSIVE Ancestors(_, _)
Ancestors(t, f) ==
    IF t[f].parent = 0 THEN {} ELSE {t[f].parent} \cup Ancestors(t, t[f].parent)

\* a directory name the walk is to leave out
IsExcludedName(name) == name = Target \/ (name # <<>> /\ name[1] = ".")

\* a file name that ends in .rs after a stem
HasRsExtension(name) == Len(name) > 3 /\ EndsWith(name, <<".">> \o Rs)

\* the walk has returned its list
Walked == pc \in {"scanning", "scanned"}

\* the files handed to the scanner
Found == {rust_files[i] : i \in 1..Len(rust_files)}

-----------------------------------------------------------------------------
(* C14 as stated: no file under a directory named target, or whose name    *)
(* starts with a dot, is scanned, at any depth and whatever directory is   *)
(* given as the scan root.                                                 *)

C14_NothingUnderExcluded ==
    Walked =>
        \A f \in Found : \A d \in Ancestors(tree, f) : ~IsExcludedName(tree[d].name)

(* C14 amended: no file that lies, below the scan root, under a directory  *)
(* named target or whose name starts with a dot is scanned, at any depth;  *)
(* the name of the scan root itself is not examined.                       *)

C14_NothingUnderExcludedBelowRoot ==
    Walked =>
        \A f \in Found :
            \A d \in Ancestors(tree, f) \ {1} : ~IsExcludedName(tree[d].name)

C14_Witness ==
    /\ Walked
    /\ \E f \in 2..Len(tree) :
          /\ HasRsExtension(tree[f].name)
          /\ tree[f].text = CallA
          /\ f \notin Found
          /\ \E d \in Ancestors(tree, f) \ {1} :
                IsExcludedName(tree[d].name) /\ tree[d].parent # 1

-----------------------------------------------------------------------------
(* C15: find_rust_files returns every file with extension rs that is       *)
(* reachable from the root through directories that are neither hidden nor *)
(* named target, at any depth, each path once, and no file with another    *)
(* extension.                                                              *)

\* the .rs files no excluded directory lies above
Reachable(t) ==
    { f \in 2..Len(t) :
        /\ ~t[f].dir
        /\ HasRsExtension(t[f].name)
        /\ \A d \in Ancestors(t, f) \ {1} : ~IsExcludedName(t[d].name) }

C15_AllRustFilesOnce ==
    Walked =>
        /\ Reachable(tree) \subseteq Found
        /\ Cardinality(Found) = Len(rust_files)
        /\ \A f \in Found : ~tree[f].dir /\ HasRsExtension(tree[f].name)

C15_Witness ==
    /\ Walked
    /\ \E f, g \in Found : f # g /\ tree[f].parent # 1 /\ tree[g].parent = 1

-----------------------------------------------------------------------------
(* C12: scan_file and scan_directory never return a name equal to an entry *)
(* of the ignore list; a name that only contains an entry as a substring   *)
(* is returned, and without an ignore list nothing is filtered.            *)

\* the names of the literal calls written in the text
AllCalls(text) == UNION {CallsOnLine(l) : l \in LineSet(text)}

\* the names the configuration lets through
Allowed(names) == IF ignore.some THEN names \ ignore.list ELSE names

C12_IgnoreIsExact ==
    /\ \A i \in 1..Len(workers) :
          workers[i].pc \in {"waiting", "locked", "extended", "done"} =>
              workers[i].variables = Allowed(AllCalls(tree[rust_files[i]].text))
    /\ pc = "scanned" =>
          variables = Allowed(UNION {AllCalls(tree[rust_files[i]].text) :
                                       i \in 1..Len(rust_files)})

C12_Witness ==
    /\ pc = "scanned"
    /\ ignore.some /\ ignore.list = {<<"A">>}
    /\ \E i \in 1..Len(rust_files) : <<"A">> \in AllCalls(tree[rust_files[i]].text)
    /\ <<"A">> \notin variables
    /\ <<"A", "B">> \in variables

-----------------------------------------------------------------------------
(* C16: when the scan of a file fails, scan_directory returns an error and *)
(* never a set of names, under every interleaving of the workers: what the *)
(* other files gave is not reported.                                       *)

C16_FailureNeverASet ==
    (\E i \in 1..Len(rust_files) : ~tree[rust_files[i]].ok) =>
        /\ pc # "scanned"
        /\ variables = {}
        /\ pc = "failed" => error.some /\ error.op = "read_file"

C16_Witness ==
    /\ pc = "failed"
    /\ error.op = "read_file"
    /\ all_variables # {}
    /\ variables = {}

-----------------------------------------------------------------------------
(* C17: when every file scan succeeds, scan_directory returns the union of *)
(* the per-file sets, for every order of the files and every interleaving  *)
(* of the workers' lock, extend and unlock steps.                          *)

C17_UnionOfFileSets ==
    pc = "scanned" /\ rust_files # <<>> =>
        /\ \A i \in 1..Len(workers) :
              workers[i].variables = scan_file(tree[rust_files[i]].text, ignore)
        /\ variables = UNION {workers[i].variables : i \in 1..Len(workers)}

C17_Witness ==
    /\ pc = "scanned"
    /\ \E i, j \in 1..Len(workers) :
          /\ workers[i].variables \ workers[j].variables # {}
          /\ workers[j].variables \ workers[i].variables # {}
    /\ variables = UNION {workers[i].variables : i \in 1..Len(workers)}

-----------------------------------------------------------------------------
(* C21: when a directory the walk reaches (one not left out as hidden or   *)
(* named target) cannot be listed, scan_directory fails with an error: the *)
(* directory is not passed over, and no source file has been scanned when  *)
(* it fails.                                                               *)

\* the directories the walk lists: the root, and below it those with no
\* left-out name on their path
ReachedDirs(t) ==
    { d \in 1..Len(t) :
        /\ t[d].dir
        /\ \A a \in (Ancestors(t, d) \cup {d}) \ {1} : ~IsExcludedName(t[a].name) }

C21_UnlistableDirectoryFails ==
    (pc # "start" /\ \E d \in ReachedDirs(tree) : ~tree[d].ok) =>
        /\ pc = "failed"
        /\ error.some /\ error.op = "read_dir"
        /\ variables = {}
        /\ workers = <<>>

C21_Witness ==
    /\ pc = "failed"
    /\ error.op = "read_dir"
    /\ \E d \in ReachedDirs(tree) : ~tree[d].ok /\ d # 1
    /\ \E f \in Reachable(tree) : tree[f].parent = 1

-----------------------------------------------------------------------------
(* Reading an existing output file as the claims describe it *)

\* a line that is not blank, is not a comment and has an equals sign
IsEntryLine(raw) ==
    /\ Trim(raw) # <<>>
    /\ Trim(raw)[1] # "#"
    /\ \E i \in 1..Len(raw) : raw[i] = "="

\* index of the first equals sign of the line
FirstEq(raw) == CHOOSE i \in 1..Len(raw) : raw[i] = "=" /\ \A j \in 1..(i - 1) : raw[j] # "="

\* the text before the first equals sign, without the blanks around it
KeyText(raw) == Trim(SubSeq(raw, 1, FirstEq(raw) - 1))

\* the text after the first equals sign, as it stands
RawValue(raw) == SubSeq(raw, FirstEq(raw) + 1, Len(raw))

\* the file has a key=value entry
HasEntry(file) == file.exists /\ \E l \in LineSet(file.text) : IsEntryLine(l)

\* the file holds two comment lines and one blank line
OnlyHeader(file) ==
    /\ file.exists
    /\ LET ls == Lines(file.text)
       IN  /\ Len(ls) = 3
           /\ ls[1] # <<>> /\ ls[1][1] = "#"
           /\ ls[2] # <<>> /\ ls[2][1] = "#"
           /\ ls[3] = <<>>

\* no .rs file of the tree has an accessor call
EmptyProject(t) ==
    \A f \in 2..Len(t) :
        ~t[f].dir /\ HasRsExtension(t[f].name) => AllCalls(t[f].text) = {}

-----------------------------------------------------------------------------
(* C22 as stated: an empty project - no .rs file, or .rs files without an  *)
(* accessor call - gives the empty set from scan_directory, and writing    *)
(* that set with generate_env_file gives a file that holds only the header *)
(* (two comment lines and one blank line).                                 *)

C22_EmptyProjectHeaderOnly ==
    EmptyProject(tree) =>
        /\ pc \in {"scanned", "written"} => variables = {}
        /\ pc = "written" => OnlyHeader(outFile)

(* C22 amended: ... gives a file that holds only the header when           *)
(* mergeExisting is false or the output path held no key=value entry; with *)
(* mergeExisting true the entries of the existing file follow the header.  *)

C22_EmptyProjectHeaderUnlessMerged ==
    EmptyProject(tree) =>
        /\ pc \in {"scanned", "written"} => variables = {}
        /\ pc = "written" /\ (~mergeExisting \/ ~HasEntry(prevOut)) => OnlyHeader(outFile)
        /\ pc = "written" /\ mergeExisting /\ HasEntry(prevOut) =>
              EntryLineSet(outFile) # {}

C22_Witness ==
    /\ pc = "written"
    /\ EmptyProject(tree)
    /\ Len(tree) > 1
    /\ ~mergeExisting
    /\ HasEntry(prevOut)
    /\ OnlyHeader(outFile)

-----------------------------------------------------------------------------
(* C23 as stated: a merge keeps the value of every existing entry verbatim: *)
(* for every KEY=VALUE line of the existing file the regenerated file has   *)
(* the same value text after the `=`, leading and trailing whitespace       *)
(* included, and only newly discovered keys get an empty value.             *)

\* line i is the last entry line of ls with its key
IsLastForKey(ls, i) ==
    \A j \in (i + 1)..Len(ls) : IsEntryLine(ls[j]) => KeyText(ls[j]) # KeyText(ls[i])

\* an entry written without value has a key the existing file lacks, or a
\* key whose existing value is empty
EmptyOnlyIfNew ==
    LET old == Lines(prevOut.text)
    IN  \A w \in EntryLineSet(outFile) :
            RawValue(w) = <<>> =>
                \A i \in 1..Len(old) :
                    IsEntryLine(old[i]) /\ KeyText(old[i]) = KeyText(w) /\ IsLastForKey(old, i)
                        => Trim(RawValue(old[i])) = <<>>

C23_ValuesVerbatim ==
    (pc = "written" /\ mergeExisting /\ prevOut.exists) =>
        /\ \A l \in LineSet(prevOut.text) :
              IsEntryLine(l) =>
                  \E w \in EntryLineSet(outFile) :
                      KeyText(w) = KeyText(l) /\ RawValue(w) = RawValue(l)
        /\ EmptyOnlyIfNew

(* C23 amended: for every KEY=VALUE line of the existing file that is the   *)
(* last one with its key, the regenerated file has the same value text      *)
(* after the `=` with its leading and trailing whitespace removed, and only *)
(* newly discovered keys get an empty value.                                *)

C23_TrimmedValuesKept ==
    (pc = "written" /\ mergeExisting /\ prevOut.exists) =>
        /\ LET old == Lines(prevOut.text)
           IN  \A i \in 1..Len(old) :
                   IsEntryLine(old[i]) /\ IsLastForKey(old, i) =>
                       \E w \in EntryLineSet(outFile) :
                           /\ KeyText(w) = KeyText(old[i])
                           /\ RawValue(w) = Trim(RawValue(old[i]))
        /\ EmptyOnlyIfNew

C23_Witness ==
    /\ pc = "written" /\ mergeExisting /\ prevOut.exists
    /\ variables # {}
    /\ \E l \in LineSet(prevOut.text) :
          /\ IsEntryLine(l)
          /\ Trim(RawValue(l)) # <<>>
          /\ RawValue(l) # Trim(RawValue(l))
          /\ KeyText(l) \o <<"=">> \o Trim(RawValue(l)) \in EntryLineSet(outFile)

-----------------------------------------------------------------------------
(* C24: every error the core returns - unreadable source file, unlistable  *)
(* directory, unreadable existing output file, output path that cannot be  *)
(* created or written - carries the offending path.                        *)

C24_ErrorsCarryPath ==
    pc = "failed" => error.some /\ error.path # <<>>

-----------------------------------------------------------------------------
(* C25: the text of an accessor call inside an ordinary string literal,    *)
(* its inner quotes written as backslash-quote, yields no name in any of   *)
(* the three passes.                                                       *)

\* the name was taken from the embedded call
FromEmbedded(n) == Contains(n, <<"A">>) \/ Contains(n, <<"\\">>)

C25_EscapedCallYieldsNothing ==
    pc = "scanned" =>
        /\ \A n \in variables : ~FromEmbedded(n)
        /\ \A n \in SlicedPass(content) \cup WholePass(content) \cup NormalizedPass(content) :
              ~FromEmbedded(n)

C25_Witness ==
    /\ pc = "scanned"
    /\ Contains(content, EscQuote \o <<"A">> \o EscQuote)
    /\ \E l \in LineSet(content) : Contains(l, EscQuote) /\ is_match(l)
    /\ variables = {<<"C">>}

-----------------------------------------------------------------------------
(* C26: when merging, every line of the existing file that is not blank,    *)
(* is not a comment and contains `=` is split at its first `=` into the     *)
(* trimmed text before it (the key) and the trimmed text after it (the      *)
(* value): the written entries are these keys with these values, the last   *)
(* line of a key deciding, next to the new names; a value that contains `=` *)
(* is written back whole.                                                   *)

\* key=value with the line cut at its first equals sign
SplitAtFirstEq(raw) == KeyText(raw) \o <<"=">> \o Trim(RawValue(raw))

C26_SplitAtFirstEquals ==
    (pc = "written" /\ mergeExisting /\ prevOut.exists) =>
        LET old == Lines(prevOut.text)
            entries == {i \in 1..Len(old) : IsEntryLine(old[i])}
        IN  EntryLineSet(outFile) =
                {SplitAtFirstEq(old[i]) : i \in {e \in entries : IsLastForKey(old, e)}}
                \cup {n \o <<"=">> : n \in variables \ {KeyText(old[i]) : i \in entries}}

\* a value with an equals sign of its own was read and written back
C26_Witness ==
    /\ pc = "written" /\ mergeExisting /\ prevOut.exists
    /\ LET old == Lines(prevOut.text)
       IN  \E i \in 1..Len(old) :
               /\ IsEntryLine(old[i]) /\ IsLastForKey(old, i)
               /\ Contains(Trim(RawValue(old[i])), <<"=">>)
               /\ SplitAtFirstEq(old[i]) \in EntryLineSet(outFile)

-----------------------------------------------------------------------------
(* C27: in generate_env_file_with_config and generate_env_file_to the whole *)
(* scan completes before the output file is read or opened: the output file *)
(* changes only in a step taken after the scan has returned Ok, and when    *)
(* the walk or a file scan fails the operation ends with the error and the  *)
(* output file is neither created, truncated nor modified.                  *)

C27_ScanBeforeOutput ==
    [][ /\ pc # "scanned" => outFile' = outFile
        /\ pc' = "failed" => error'.some /\ outFile' = outFile /\ runs' = 0 ]_vars

\* a file scan has failed with an output file of earlier entries in place
C27_Witness ==
    /\ pc = "failed"
    /\ error.op = "read_file"
    /\ \E i \in 1..Len(workers) : workers[i].pc = "done"
    /\ HasEntry(outFile)

-----------------------------------------------------------------------------
(* C28: under fair scheduling of the workers scan_directory over a finite   *)
(* file list always ends with Ok or Err, also when a file scan fails: a     *)
(* worker that takes the accumulator lock releases it after extending the   *)
(* set, so no worker is left waiting for the lock.                          *)

\* scan_directory has returned
Returned == pc \in {"scanned", "failed"}

C28_ScanTerminates ==
    /\ <>Returned
    /\ [](Returned =>
            /\ lock = 0
            /\ \A i \in 1..Len(workers) : workers[i].pc \in {"ready", "done", "failed"})

\* one worker waits for the lock another one holds
C28_Witness ==
    /\ pc = "scanning"
    /\ \E i, j \in 1..Len(workers) :
          i # j /\ workers[i].pc = "waiting" /\ lock = j /\ workers[j].pc \in {"locked", "extended"}

-----------------------------------------------------------------------------
(* C29: the CLI `generate` command, when the scan finds no variables, exits *)
(* successfully without calling generate_env_file: the output file is not   *)
(* created, and an existing output file is left byte-for-byte unchanged,    *)
(* also with --no-merge.                                                    *)

C29_NoVariablesNoWrite ==
    [][ /\ pc # "scanned" => outFile' = outFile
        /\ (pc = "scanned" /\ variables = {}) =>
               /\ pc' = "done"
               /\ outFile' = outFile
               /\ runs' = runs
               /\ ~error'.some ]_vars

\* --no-merge, source files were scanned, none of their names was kept, and
\* the command has returned with the earlier entries in place
C29_Witness ==
    /\ pc = "done"
    /\ ~mergeExisting
    /\ rust_files # <<>>
    /\ variables = {}
    /\ runs = 0
    /\ HasEntry(outFile)

-----------------------------------------------------------------------------
(* C30: a merge keeps only key=value entries of the existing file: below    *)
(* the header the regenerated file has entry lines only, no comment line,   *)
(* blank line or line without `=` of the existing file is among them, and   *)
(* of a key that occurs on several lines only the value of the last         *)
(* occurrence is written.                                                   *)

\* line j of ls is the last entry line with the key of line i
LastOf(ls, i, j) ==
    IsEntryLine(ls[j]) /\ KeyText(ls[j]) = KeyText(ls[i]) /\ IsLastForKey(ls, j)

C30_OnlyEntriesLastWins ==
    (pc = "written" /\ mergeExisting /\ prevOut.exists) =>
        LET old == Lines(prevOut.text)
        IN  /\ \A w \in EntryLineSet(outFile) : IsEntryLine(w)
            /\ \A i \in 1..Len(old) :
                   ~IsEntryLine(old[i]) => old[i] \notin EntryLineSet(outFile)
            /\ \A i, j \in 1..Len(old) :
                   (/\ IsEntryLine(old[i]) /\ i < j /\ LastOf(old, i, j)
                    /\ Trim(RawValue(old[i])) # Trim(RawValue(old[j])))
                       => /\ SplitAtFirstEq(old[i]) \notin EntryLineSet(outFile)
                          /\ SplitAtFirstEq(old[j]) \in EntryLineSet(outFile)

\* the existing file gave a key two values, and the file was regenerated
C30_Witness ==
    /\ pc = "written" /\ mergeExisting /\ prevOut.exists
    /\ LET old == Lines(prevOut.text)
       IN  \E i, j \in 1..Len(old) :
               /\ IsEntryLine(old[i]) /\ i < j /\ LastOf(old, i, j)
               /\ Trim(RawValue(old[i])) # Trim(RawValue(old[j]))
               /\ SplitAtFirstEq(old[j]) \in EntryLineSet(outFile)

====
